---- MODULE Spec2Model ----
(***************************************************************************)
(* TMDB-Embed-API: the login attempt governor (loginAttempts map,          *)
(* recordLoginFailure / canAttempt / recordLoginSuccess), the              *)
(* POST /auth/login handler built on it, the stream routes (aggregate and   *)
(* provider-specific) with stream selection and quality scoring, and the   *)
(* quality scorer of the MP4Hydra provider.                                *)
(***************************************************************************)
EXTENDS Integers, Sequences, FiniteSets, TLC

VARIABLES now, loginAttempts, ret, resp, config, metrics, reqs, pure

govVars == <<now, loginAttempts, ret, resp>>
aggVars == <<config, metrics, reqs>>
vars == <<now, loginAttempts, ret, resp, config, metrics, reqs, pure>>

(***************************************************************************)
(* Program constants                                                       *)
(***************************************************************************)
MAX_ATTEMPTS_WINDOW == 5
WINDOW_MS == 10 * 60 * 1000
BASE_LOCK_MS == 5 * 60 * 1000

(***************************************************************************)
(* Bounds of the model                                                     *)
(***************************************************************************)
\* Date.now() is read on a grid: StartTime + k * BASE_LOCK_MS + j, k <= MaxTick,
\* j in Jitter. The jitter of 1 ms puts a reading on both sides of every strict
\* comparison (now - first > WINDOW_MS, now < lockedUntil) and makes
\* (lockedUntil - now) / 1000 a non-integer, so that Math.ceil matters.
MaxTick == 2
\* recordLoginFailure is not called on an entry whose count has reached MaxCount.
MaxCount == 10

\* A fulfilled fetch took 0..MaxElapsed ms (Date.now() - t0).
MaxElapsed == 1

Jitter == {0, 1}
StartTime == 2 * WINDOW_MS
Times == {StartTime + k * BASE_LOCK_MS + j : k \in 0..MaxTick, j \in Jitter}
Ips == {"ip1", "ip2"}

(***************************************************************************)
(* Arithmetic of the JavaScript built-ins the governor uses                *)
(***************************************************************************)
\* Math.pow(2, n) for an integer n >= 0
RECURSIVE Pow2(_)
Pow2(n) == IF n <= 0 THEN 1 ELSE 2 * Pow2(n - 1)

\* Math.min(a, b)
Min(a, b) == IF a < b THEN a ELSE b

\* Math.max(a, b)
Max(a, b) == IF a > b THEN a ELSE b

\* Math.ceil(d / 1000) for an integer d (\div rounds towards minus infinity)
\* (faulty variant: Math.floor)
CeilSecFloorBug(d) == d \div 1000
CeilSec(d) == -((-d) \div 1000)

(***************************************************************************)
(* The loginAttempts Map: a function whose domain is the set of keys       *)
(***************************************************************************)
MapSet(m, k, v) == [x \in (DOMAIN m) \cup {k} |-> IF x = k THEN v ELSE m[x]]
MapDelete(m, k) == [x \in (DOMAIN m) \ {k} |-> m[x]]
EmptyMap == [x \in {} |-> 0]

\* lockMs of recordLoginFailure, for count > MAX_ATTEMPTS_WINDOW
\* (faulty variant: no Math.min(8, ...))
LockMsUncapped(count) == BASE_LOCK_MS * Pow2(count - MAX_ATTEMPTS_WINDOW - 1)
LockMs(count) ==
    LET over == count - MAX_ATTEMPTS_WINDOW
    IN  BASE_LOCK_MS * Min(8, Pow2(over - 1))

\* The threshold test of recordLoginFailure
\* (faulty variant: >=)
OverThresholdOffByOne(count) == count >= MAX_ATTEMPTS_WINDOW
OverThreshold(count) == count > MAX_ATTEMPTS_WINDOW

\* The window test of recordLoginFailure
WindowReset(entry, t) == t - entry.first > WINDOW_MS /\ t > entry.lockedUntil

\* recordLoginFailure(ip) with Date.now() = t: the map afterwards
\* (the entry it returns is the map's entry of ip)
recordLoginFailure(m, ip, t) ==
    IF ip \notin DOMAIN m
    THEN MapSet(m, ip, [count |-> 1, first |-> t, last |-> t, lockedUntil |-> 0])
    ELSE LET entry == m[ip]
             e1 == IF WindowReset(entry, t)
                   THEN [entry EXCEPT !.count = 1, !.first = t]
                   ELSE [entry EXCEPT !.count = entry.count + 1]
             e2 == [e1 EXCEPT !.last = t]
             e3 == IF OverThreshold(e2.count)
                   THEN [e2 EXCEPT !.lockedUntil = t + LockMs(e2.count)]
                   ELSE e2
         IN  MapSet(m, ip, e3)

\* The lock test of canAttempt
\* (faulty variant: now <= lockedUntil)
LockActiveInclusive(entry, t) == entry.lockedUntil # 0 /\ t <= entry.lockedUntil
LockActive(entry, t) == entry.lockedUntil # 0 /\ t < entry.lockedUntil

\* canAttempt(ip) with Date.now() = t: what it returns (retryAfter is 0 when the
\* result carries none) and the map afterwards
\* (faulty variant: a stale entry is not deleted)
canAttemptKeepsStale(m, ip, t) ==
    IF ip \notin DOMAIN m
    THEN [allowed |-> TRUE, retryAfter |-> 0, map |-> m]
    ELSE IF LockActive(m[ip], t)
         THEN [allowed |-> FALSE, retryAfter |-> CeilSec(m[ip].lockedUntil - t), map |-> m]
         ELSE [allowed |-> TRUE, retryAfter |-> 0, map |-> m]
canAttempt(m, ip, t) ==
    IF ip \notin DOMAIN m
    THEN [allowed |-> TRUE, retryAfter |-> 0, map |-> m]
    ELSE LET entry == m[ip]
         IN  IF LockActive(entry, t)
             THEN [allowed |-> FALSE,
                   retryAfter |-> CeilSec(entry.lockedUntil - t),
                   map |-> m]
             ELSE IF t - entry.first > WINDOW_MS
                  THEN [allowed |-> TRUE, retryAfter |-> 0, map |-> MapDelete(m, ip)]
                  ELSE [allowed |-> TRUE, retryAfter |-> 0, map |-> m]

\* recordLoginSuccess(ip): the map afterwards
\* (faulty variant: a locked entry survives a success)
recordLoginSuccessKeepsLock(m, ip) ==
    IF ip \in DOMAIN m /\ m[ip].count > MAX_ATTEMPTS_WINDOW THEN m ELSE MapDelete(m, ip)
recordLoginSuccess(m, ip) == MapDelete(m, ip)

(***************************************************************************)
(* POST /auth/login                                                        *)
(***************************************************************************)
\* What the request carries: "missing" = !username || !password; otherwise
\* authenticate(username, password) is false ("invalid") or true ("valid").
Credentials == {"missing", "invalid", "valid"}

Response(ip, creds, status, error, retryAfter, remaining, authCalls) ==
    [ip |-> ip, creds |-> creds, status |-> status, error |-> error,
     retryAfter |-> retryAfter, remaining |-> remaining, authCalls |-> authCalls]

\* The handler, run to completion with Date.now() = t (it is synchronous: its
\* clock readings are one reading): the map afterwards and the response.
\* authCalls counts the invocations of authenticate.
\* (faulty variant: the body is looked at and authenticate called before the
\* governor is consulted)
loginHandlerVerifiesFirst(m, ip, creds, t) ==
    IF creds = "missing"
    THEN [map |-> m, resp |-> Response(ip, creds, 400, "MISSING_CREDENTIALS", 0, 0, 0)]
    ELSE IF creds = "valid"
    THEN [map |-> recordLoginSuccess(m, ip),
          resp |-> Response(ip, creds, 200, "none", 0, 0, 1)]
    ELSE LET attemptState == canAttempt(m, ip, t)
         IN  IF ~attemptState.allowed
             THEN [map |-> attemptState.map,
                   resp |-> Response(ip, creds, 429, "TOO_MANY_ATTEMPTS",
                                     attemptState.retryAfter, 0, 1)]
             ELSE LET m2 == recordLoginFailure(attemptState.map, ip, t)
                  IN  [map |-> m2,
                       resp |-> Response(ip, creds, 401, "INVALID_CREDENTIALS", 0,
                                         Max(0, MAX_ATTEMPTS_WINDOW - m2[ip].count), 1)]
\* (faulty variant: the governor is not consulted before the credentials are
\* verified)
loginHandlerUngated(m, ip, creds, t) ==
    IF creds = "missing"
    THEN [map |-> m, resp |-> Response(ip, creds, 400, "MISSING_CREDENTIALS", 0, 0, 0)]
    ELSE IF creds = "invalid"
    THEN LET m2 == recordLoginFailure(m, ip, t)
             entry == m2[ip]
         IN  IF LockActive(entry, t)
             THEN [map |-> m2,
                   resp |-> Response(ip, creds, 429, "LOCKED",
                                     CeilSec(entry.lockedUntil - t), 0, 1)]
             ELSE [map |-> m2,
                   resp |-> Response(ip, creds, 401, "INVALID_CREDENTIALS", 0,
                                     Max(0, MAX_ATTEMPTS_WINDOW - entry.count), 1)]
    ELSE [map |-> recordLoginSuccess(m, ip),
          resp |-> Response(ip, creds, 200, "none", 0, 0, 1)]
loginHandler(m, ip, creds, t) ==
    LET attemptState == canAttempt(m, ip, t)
    IN  IF ~attemptState.allowed
        THEN [map |-> attemptState.map,
              resp |-> Response(ip, creds, 429, "TOO_MANY_ATTEMPTS",
                                attemptState.retryAfter, 0, 0)]
        ELSE IF creds = "missing"
        THEN [map |-> attemptState.map,
              resp |-> Response(ip, creds, 400, "MISSING_CREDENTIALS", 0, 0, 0)]
        ELSE IF creds = "invalid"
        THEN LET m2 == recordLoginFailure(attemptState.map, ip, t)
                 entry == m2[ip]
             IN  IF LockActive(entry, t)
                 THEN [map |-> m2,
                       resp |-> Response(ip, creds, 429, "LOCKED",
                                         CeilSec(entry.lockedUntil - t), 0, 1)]
                 ELSE [map |-> m2,
                       resp |-> Response(ip, creds, 401, "INVALID_CREDENTIALS", 0,
                                         Max(0, MAX_ATTEMPTS_WINDOW - entry.count), 1)]
        ELSE [map |-> recordLoginSuccess(attemptState.map, ip),
              resp |-> Response(ip, creds, 200, "none", 0, 0, 1)]

(***************************************************************************)
(* Streams and quality labels                                              *)
(***************************************************************************)
\* A quality label is a JavaScript value: a string, as the sequence of its
\* characters, or null.
Str(cs) == [isString |-> TRUE, chars |-> cs]
Null == [isString |-> FALSE, chars |-> <<>>]

Q4K == Str(<<"4", "k">>)
Q1080p == Str(<<"1", "0", "8", "0", "p">>)
Q720p == Str(<<"7", "2", "0", "p">>)
Q480p == Str(<<"4", "8", "0", "p">>)
QEmpty == Str(<<>>)
Q2160p == Str(<<"2", "1", "6", "0", "p">>)
Q1440p == Str(<<"1", "4", "4", "0", "p">>)
Q2K == Str(<<"2", "K">>)
Q1080 == Str(<<"1", "0", "8", "0">>)
QSD == Str(<<"s", "d">>)
QHD == Str(<<"h", "d">>)
Q1080p4k == Str(<<"1", "0", "8", "0", "p", " ", "4", "k">>)
Qsd720p == Str(<<"s", "d", " ", "7", "2", "0", "p">>)
\* The number 1080: a value that is not a string and not falsy
Num1080 == [isString |-> FALSE, chars |-> <<"1", "0", "8", "0">>]

\* String.prototype.toUpperCase, on the letters the labels use
UpperChar(c) ==
    CASE c = "k" -> "K" [] c = "p" -> "P" [] c = "s" -> "S" [] c = "d" -> "D"
      [] c = "h" -> "H" [] OTHER -> c
ToUpperCase(cs) == [i \in 1..Len(cs) |-> UpperChar(cs[i])]

\* String.prototype.includes
Includes(cs, pat) ==
    \E i \in 0..(Len(cs) - Len(pat)) : \A j \in 1..Len(pat) : cs[i + j] = pat[j]

\* getQualityScore(q)
\* (faulty variant: the 1080 row is tried before the 4K row)
getQualityScoreRowsSwapped(q) ==
    IF ~q.isString \/ q.chars = <<>> THEN 0
    ELSE LET upper == ToUpperCase(q.chars)
         IN  IF Includes(upper, <<"1", "0", "8", "0">>) THEN 80
             ELSE IF Includes(upper, <<"4", "K">>) \/ Includes(upper, <<"2", "1", "6", "0">>)
             THEN 100
             ELSE IF Includes(upper, <<"1", "4", "4", "0">>) \/ Includes(upper, <<"2", "K">>)
             THEN 90
             ELSE IF Includes(upper, <<"7", "2", "0">>) THEN 60
             ELSE IF Includes(upper, <<"4", "8", "0">>) \/ Includes(upper, <<"S", "D">>)
             THEN 40
             ELSE 20
getQualityScore(q) ==
    IF ~q.isString \/ q.chars = <<>> THEN 0
    ELSE LET upper == ToUpperCase(q.chars)
         IN  IF Includes(upper, <<"4", "K">>) \/ Includes(upper, <<"2", "1", "6", "0">>)
             THEN 100
             ELSE IF Includes(upper, <<"1", "4", "4", "0">>) \/ Includes(upper, <<"2", "K">>)
             THEN 90
             ELSE IF Includes(upper, <<"1", "0", "8", "0">>) THEN 80
             ELSE IF Includes(upper, <<"7", "2", "0">>) THEN 60
             ELSE IF Includes(upper, <<"4", "8", "0">>) \/ Includes(upper, <<"S", "D">>)
             THEN 40
             ELSE 20

\* qualityScore(quality) of the MP4Hydra provider. A value that is neither falsy
\* nor a string has no toUpperCase: the call throws (Throws).
Throws == -1
qualityScore(quality) ==
    IF quality = Null \/ quality = QEmpty THEN 0
    ELSE IF ~quality.isString THEN Throws
    ELSE LET q == ToUpperCase(quality.chars)
         IN  IF Includes(q, <<"4", "K">>) \/ Includes(q, <<"2", "1", "6", "0">>) THEN 10
             ELSE IF Includes(q, <<"1", "0", "8", "0">>) THEN 8
             ELSE IF Includes(q, <<"7", "2", "0">>) THEN 6
             ELSE IF Includes(q, <<"4", "8", "0">>) THEN 4
             ELSE 2

\* A stream as a provider returns it. headers is "none" when the stream has no
\* headers field; relay says that url is a relay address under the server's
\* origin (that encodes the provider's url and headers), which only
\* processStreamsForProxy makes it.
Stream(provider, quality, url, headers) ==
    [provider |-> provider, quality |-> quality, url |-> url, headers |-> headers,
     relay |-> FALSE]

\* Array.prototype.filter: the elements that pass, in their order
FilterSeq(seq, Keep(_)) == SelectSeq(seq, Keep)

\* Array.prototype.sort with the comparator of pickBestStream (scoreB - scoreA,
\* 0 on a tie): a stable sort by descending score. InsertByScore puts s behind
\* every element that does not score lower.
\* (faulty variant: an equal-scoring later element is put first)
RECURSIVE InsertByScoreUnstable(_, _)
InsertByScoreUnstable(sorted, s) ==
    IF sorted = <<>> THEN <<s>>
    ELSE IF getQualityScore(Head(sorted).quality) > getQualityScore(s.quality)
    THEN <<Head(sorted)>> \o InsertByScoreUnstable(Tail(sorted), s)
    ELSE <<s>> \o sorted
RECURSIVE InsertByScore(_, _)
InsertByScore(sorted, s) ==
    IF sorted = <<>> THEN <<s>>
    ELSE IF getQualityScore(Head(sorted).quality) >= getQualityScore(s.quality)
    THEN <<Head(sorted)>> \o InsertByScore(Tail(sorted), s)
    ELSE <<s>> \o sorted

RECURSIVE SortByScore(_)
SortByScore(seq) ==
    IF seq = <<>> THEN <<>>
    ELSE InsertByScore(SortByScore(SubSeq(seq, 1, Len(seq) - 1)), seq[Len(seq)])

\* pickBestStream(streams, preferredProvider); "null" is no preferred provider.
\* The result is [found |-> FALSE] for null.
NoStream == [found |-> FALSE, stream |-> Stream("none", Null, "", "none")]
pickBestStream(streams, preferredProvider) ==
    IF streams = <<>> THEN NoStream
    ELSE LET candidates == IF preferredProvider # "null"
                           THEN FilterSeq(streams, LAMBDA s : s.provider = preferredProvider)
                           ELSE streams
         IN  IF candidates = <<>> THEN NoStream
             ELSE [found |-> TRUE, stream |-> SortByScore(candidates)[1]]

\* The caller's array after pickBestStream(streams, preferredProvider): without
\* a preferred provider candidates is streams itself and sort works in place;
\* with one, filter made a new array.
ArrayAfterPick(streams, preferredProvider) ==
    IF streams # <<>> /\ preferredProvider = "null" THEN SortByScore(streams) ELSE streams

\* applyFilters(streams, scope, config.minQualities, config.excludeCodecs): the
\* streams that pass the configured policy, in their order. The policy is the
\* set of labels it removes.
applyFilters(streams, excluded) ==
    FilterSeq(streams, LAMBDA s : s.quality \notin excluded)

\* processStreamsForProxy(streams, serverUrl): every stream that carries headers
\* gets a relay address; one without headers gets it when the relay covers all.
processStreamsForProxy(streams, relayAll) ==
    [i \in 1..Len(streams) |->
        IF streams[i].headers # "none" \/ relayAll
        THEN [streams[i] EXCEPT !.relay = TRUE]
        ELSE streams[i]]

\* streams.map(s => { const { headers, ...rest } = s; return rest; })
\* (faulty variant: the streams keep their headers)
StripHeadersKeepsThem(streams) == streams
StripHeaders(streams) ==
    [i \in 1..Len(streams) |-> [streams[i] EXCEPT !.headers = "none"]]

\* results.flat(): the concatenation of the result arrays in index order
RECURSIVE Flat(_)
Flat(results) ==
    IF results = <<>> THEN <<>> ELSE Head(results) \o Flat(Tail(results))

(***************************************************************************)
(* State                                                                   *)
(***************************************************************************)
\* now: the reading of Date.now(); loginAttempts: the Map of entries.
\* ret describes the governor call made at the current clock reading, if any:
\* op and ip, what canAttempt returned, seen = the count of ip's entry before
\* the call (0: no entry), gate = for a recordFailure that directly follows an
\* allowed canAttempt of the same ip, the count that canAttempt saw (else -1).
\* resp is the response of the POST /auth/login handled at the current clock
\* reading, if any.
NoRet == [op |-> "none", ip |-> "none", allowed |-> TRUE, retryAfter |-> 0,
          seen |-> 0, gate |-> -1]
NoResp == [ip |-> "none", creds |-> "none", status |-> 0, error |-> "none",
           retryAfter |-> 0, remaining |-> 0, authCalls |-> 0]

CountOf(m, ip) == IF ip \in DOMAIN m THEN m[ip].count ELSE 0

\* The registry (listProviders(), in its order) and what each provider's fetch
\* can fulfil with
Registered == <<"a", "b", "c">>
Outputs(name) ==
    CASE name = "a" -> { <<Stream("a", Q720p, "u1", "h")>>,
                         <<Stream("a", Q1080p, "u1", "none"), Stream("a", Q480p, "u3", "h")>> }
      [] name = "b" -> { <<Stream("b", Q1080p, "u2", "none")>>, <<>> }
      [] OTHER -> { <<Stream("c", Null, "u4", "h"), Stream("c", Q4K, "", "none")>>,
                    <<Stream("c", Null, "u4", "h")>> }

\* The names a request can give as ?provider= ("null": none given), the resolver's
\* answers and the request parameters
ProviderNames == {"a", "b", "c", "zz"}
NoCalls == [n \in ProviderNames |-> 0]
Types == {"movie", "series", "tv"}
DirectModes == {"none", "text", "redirect"}
TmdbIds == {"603"}
ImdbIds == {"tt0133093", "null"}
NullTiming == -1

\* config and the registry's enabled flags are set before the server starts.
\* defaultProviders = <<>> selects every registered provider.
Configs ==
    [enableProxy : BOOLEAN, relayAll : {FALSE},
     defaultProviders : {<<>>, <<"c", "zz", "a">>},
     excluded : {{}, {Q480p}},
     enabled : {{"a", "b", "c"}, {"a", "c"}}]
DefaultConfig ==
    [enableProxy |-> FALSE, relayAll |-> FALSE, defaultProviders |-> <<>>,
     excluded |-> {}, enabled |-> {"a", "b", "c"}]

NoMetrics ==
    [streamRequests |-> 0, tmdbToImdbLookups |-> 0, providerCalls |-> NoCalls,
     streamsReturned |-> 0, lastError |-> "none"]

\* The response of a stream request. kind: "json", "text" or "redirect";
\* provider is the provider field of the provider-specific route's JSON; chosen
\* is the stream that direct mode picked and answered with.
NoRes ==
    [status |-> 0, kind |-> "none", error |-> "none", tmdbId |-> "none",
     imdbId |-> "null", count |-> 0, providerTimings |-> EmptyMap, streams |-> <<>>,
     url |-> "", comment |-> <<>>, provider |-> "none", chosen |-> NoStream]

\* One stream request: its route ("aggregate" or "provider", with the :provider
\* parameter), the number of responses it has sent, its position (idle, resolving = suspended at await
\* resolveImdbId, fetching = suspended at await Promise.all, done), its
\* parameters and its locals. fetch[i], results[i] belong to selected[i];
\* returned[i] is what its fetch fulfilled with; reordered says that some fetch
\* settled while one started before it was still pending.
IdleReq ==
    [pc |-> "idle", route |-> "none", provider |-> "none", sent |-> 0, type |-> "none", tmdbId |-> "none", direct |-> "none",
     preferredProvider |-> "null", imdbId |-> "null", selected |-> <<>>,
     fetch |-> <<>>, returned |-> <<>>, results |-> <<>>,
     providerTimings |-> EmptyMap, reordered |-> FALSE, res |-> NoRes]

\* The stream requests the server can have in flight, and the one that the
\* single-request specification drives
Reqs == {1, 2}
OneReq == {1}

\* The last application of a pure function: pickBestStream(streams,
\* preferredProvider) with its result, the caller's array after the call and the
\* result of calling again on that array; or the two scorers on labels a and b.
NoPure ==
    [fn |-> "none", streams |-> <<>>, preferredProvider |-> "null",
     result |-> NoStream, after |-> <<>>, again |-> NoStream,
     a |-> Null, b |-> Null, engineA |-> 0, engineB |-> 0,
     providerA |-> 0, providerB |-> 0]

InitGovVars ==
    /\ now = StartTime
    /\ loginAttempts = EmptyMap
    /\ ret = NoRet
    /\ resp = NoResp

InitAggVars ==
    /\ metrics = NoMetrics
    /\ reqs = [r \in Reqs |-> IdleReq]
    /\ pure = NoPure

Init ==
    /\ InitGovVars
    /\ InitAggVars
    /\ config = DefaultConfig

\* The clock advances between calls
Tick ==
    /\ \E t \in Times : t > now /\ now' = t
    /\ ret' = NoRet
    /\ resp' = NoResp
    /\ UNCHANGED <<loginAttempts, config, metrics, reqs, pure>>

RecordFailure(ip) ==
    /\ CountOf(loginAttempts, ip) < MaxCount
    /\ loginAttempts' = recordLoginFailure(loginAttempts, ip, now)
    /\ ret' = [op |-> "recordFailure", ip |-> ip, allowed |-> TRUE, retryAfter |-> 0,
               seen |-> CountOf(loginAttempts, ip),
               gate |-> IF ret.op = "canAttempt" /\ ret.ip = ip /\ ret.allowed
                        THEN ret.seen ELSE -1]
    /\ UNCHANGED <<now, resp, config, metrics, reqs, pure>>

RecordSuccess(ip) ==
    /\ loginAttempts' = recordLoginSuccess(loginAttempts, ip)
    /\ ret' = [op |-> "recordSuccess", ip |-> ip, allowed |-> TRUE, retryAfter |-> 0,
               seen |-> CountOf(loginAttempts, ip), gate |-> -1]
    /\ UNCHANGED <<now, resp, config, metrics, reqs, pure>>

CanAttempt(ip) ==
    LET r == canAttempt(loginAttempts, ip, now)
    IN  /\ loginAttempts' = r.map
        /\ ret' = [op |-> "canAttempt", ip |-> ip, allowed |-> r.allowed,
                   retryAfter |-> r.retryAfter,
                   seen |-> CountOf(loginAttempts, ip), gate |-> -1]
        /\ UNCHANGED <<now, resp, config, metrics, reqs, pure>>

\* The governor driven directly: any sequence of its three calls at
\* non-decreasing times
NextGov ==
    \/ Tick
    \/ \E ip \in Ips : RecordFailure(ip)
    \/ \E ip \in Ips : RecordSuccess(ip)
    \/ \E ip \in Ips : CanAttempt(ip)

SpecGov == Init /\ [][NextGov]_vars

\* One POST /auth/login request from ip, handled at the current clock reading
Login(ip, creds) ==
    LET h == loginHandler(loginAttempts, ip, creds, now)
    IN  /\ loginAttempts' = h.map
        /\ resp' = h.resp
        /\ UNCHANGED <<now, ret, config, metrics, reqs, pure>>

\* The governor driven through the login endpoint only
NextLogin ==
    \/ Tick
    \/ \E ip \in Ips, creds \in Credentials : Login(ip, creds)

SpecLogin == Init /\ [][NextLogin]_vars

\* One identity's login requests over a longer time: the clock is read on the
\* grid StartTime + k * BASE_LOCK_MS + j with k <= MaxLoginTick, which reaches
\* past the end of a second lock set at the end of the window
\* (first + WINDOW_MS + 2 * BASE_LOCK_MS).
MaxLoginTick == 4
LoginTimes == {StartTime + k * BASE_LOCK_MS + j : k \in 0..MaxLoginTick, j \in Jitter}

TickLogin ==
    /\ \E t \in LoginTimes : t > now /\ now' = t
    /\ ret' = NoRet
    /\ resp' = NoResp
    /\ UNCHANGED <<loginAttempts, config, metrics, reqs, pure>>

NextEscalation ==
    \/ TickLogin
    \/ \E creds \in Credentials : Login("ip1", creds)

SpecEscalation == Init /\ [][NextEscalation]_vars

(***************************************************************************)
(* GET /api/streams/:type/:tmdbId                                          *)
(***************************************************************************)
\* selectedProviders
SelectedProviders(cfg) ==
    IF Len(cfg.defaultProviders) # 0 THEN cfg.defaultProviders ELSE Registered

\* getProvider(name) finds a provider and it is enabled
Invoked(cfg, name) ==
    /\ \E i \in 1..Len(Registered) : Registered[i] = name
    /\ name \in cfg.enabled

\* Promise.all puts the value of the i-th promise at index i; k promises had
\* settled before
\* (faulty variant: values stored in the order the promises settle)
StoreResultByCompletion(results, i, k, r) == [results EXCEPT ![k + 1] = r]
StoreResult(results, i, k, r) == [results EXCEPT ![i] = r]

SettledCount(req) == Cardinality({j \in 1..Len(req.fetch) : req.fetch[j] # "pending"})

Respond(req, status, kind, error) ==
    [req EXCEPT !.pc = "done",
                !.sent = @ + 1,
                !.res = [NoRes EXCEPT !.status = status, !.kind = kind, !.error = error,
                                      !.tmdbId = req.tmdbId]]

\* The handler up to await resolveImdbId
StartRequest(r, type, tmdbId, direct, preferredProvider) ==
    /\ reqs[r].pc = "idle"
    /\ LET req == [reqs[r] EXCEPT !.route = "aggregate",
                                  !.type = type, !.tmdbId = tmdbId, !.direct = direct,
                                  !.preferredProvider = preferredProvider]
       IN  IF type \notin {"movie", "series"}
           THEN /\ reqs' = [reqs EXCEPT ![r] = Respond(req, 400, "json", "INVALID_TYPE")]
                /\ UNCHANGED metrics
           ELSE /\ reqs' = [reqs EXCEPT ![r] = [req EXCEPT !.pc = "resolving"]]
                /\ metrics' = [metrics EXCEPT !.streamRequests = @ + 1]
    /\ UNCHANGED <<config, now, loginAttempts, ret, resp, pure>>

\* resolveImdbId rejects: the handler's catch
ResolverRejects(r) ==
    /\ reqs[r].pc = "resolving"
    /\ reqs' = [reqs EXCEPT ![r] = Respond(reqs[r], 500, "json", "INTERNAL_ERROR")]
    /\ metrics' = [metrics EXCEPT !.lastError = "resolveImdbId"]
    /\ UNCHANGED <<config, now, loginAttempts, ret, resp, pure>>

\* resolveImdbId fulfils with imdbId: the handler runs on to await Promise.all,
\* and with it every callback of selectedProviders.map up to its own await: a
\* provider that is missing or disabled yields [] at once, every other one is
\* counted and its fetch started.
ResolverFulfils(r, imdbId) ==
    /\ reqs[r].route = "aggregate"
    /\ reqs[r].pc = "resolving"
    /\ LET sel == SelectedProviders(config)
           n == Len(sel)
       IN  /\ reqs' = [reqs EXCEPT ![r] =
                  [reqs[r] EXCEPT
                      !.pc = "fetching",
                      !.imdbId = imdbId,
                      !.selected = sel,
                      !.fetch = [i \in 1..n |-> IF Invoked(config, sel[i])
                                                THEN "pending" ELSE "skipped"],
                      !.returned = [i \in 1..n |-> <<>>],
                      !.results = [i \in 1..n |-> <<>>]]]
           /\ metrics' =
                  [metrics EXCEPT
                      !.tmdbToImdbLookups = IF imdbId # "null" THEN @ + 1 ELSE @,
                      !.providerCalls =
                          [name \in ProviderNames |->
                              @[name] + Cardinality({i \in 1..n :
                                  sel[i] = name /\ Invoked(config, name)})]]
    /\ UNCHANGED <<config, now, loginAttempts, ret, resp, pure>>

\* The callback of selected[i] after its fetch fulfilled with r, elapsed ms
\* after it was started
OnFetchFulfilled(req, i, r, elapsed) ==
    [req EXCEPT !.fetch[i] = "fulfilled",
                !.returned[i] = r,
                !.results = StoreResult(req.results, i, SettledCount(req), r),
                !.providerTimings = MapSet(req.providerTimings, req.selected[i], elapsed),
                !.reordered = @ \/ \E j \in 1..(i - 1) : req.fetch[j] = "pending"]

\* The callback of selected[i] after its fetch threw or rejected: its catch
\* (faulty variant: no try/catch, the rejection reaches the handler's catch)
OnFetchRejectedFailsBatch(req, i) ==
    Respond([req EXCEPT !.fetch[i] = "rejected"], 500, "json", "INTERNAL_ERROR")
OnFetchRejected(req, i) ==
    [req EXCEPT !.fetch[i] = "rejected",
                !.results = StoreResult(req.results, i, SettledCount(req), <<>>),
                !.providerTimings = MapSet(req.providerTimings, req.selected[i], NullTiming),
                !.reordered = @ \/ \E j \in 1..(i - 1) : req.fetch[j] = "pending"]

FetchFulfils(r, i) ==
    /\ reqs[r].route = "aggregate"
    /\ reqs[r].pc = "fetching"
    /\ i \in 1..Len(reqs[r].fetch)
    /\ reqs[r].fetch[i] = "pending"
    /\ \E out \in Outputs(reqs[r].selected[i]), elapsed \in 0..MaxElapsed :
          reqs' = [reqs EXCEPT ![r] = OnFetchFulfilled(reqs[r], i, out, elapsed)]
    /\ UNCHANGED <<metrics, config, now, loginAttempts, ret, resp, pure>>

FetchRejects(r, i) ==
    /\ reqs[r].route = "aggregate"
    /\ reqs[r].pc = "fetching"
    /\ i \in 1..Len(reqs[r].fetch)
    /\ reqs[r].fetch[i] = "pending"
    /\ reqs' = [reqs EXCEPT ![r] = OnFetchRejected(reqs[r], i)]
    /\ UNCHANGED <<metrics, config, now, loginAttempts, ret, resp, pure>>

\* best.quality || 'unknown'
Unknown == Str(<<"u", "n", "k", "n", "o", "w", "n">>)
\* (faulty variant: the quality as it is)
QualityAsItIs(q) == q
QualityOrUnknown(q) == IF q.isString /\ q.chars # <<>> THEN q ELSE Unknown

\* The handler from the point where Promise.all has fulfilled to its response
\* (no await in between): the streams it ends up with and the response
FinishAggregate(req, cfg) ==
    LET flat == Flat(req.results)
        filtered == applyFilters(flat, cfg.excluded)
        streams == IF cfg.enableProxy
                   THEN StripHeaders(processStreamsForProxy(filtered, cfg.relayAll))
                   ELSE filtered
        best == pickBestStream(streams, req.preferredProvider)
        done == [req EXCEPT !.pc = "done", !.sent = @ + 1]
    IN  IF req.direct # "none"
        THEN IF ~best.found \/ best.stream.url = ""
             THEN [done EXCEPT !.res = [NoRes EXCEPT !.status = 404, !.kind = "text",
                                                     !.tmdbId = req.tmdbId]]
             ELSE IF req.direct = "redirect"
             THEN [done EXCEPT !.res = [NoRes EXCEPT !.status = 302, !.kind = "redirect",
                                                     !.tmdbId = req.tmdbId,
                                                     !.chosen = best,
                                                     !.url = best.stream.url]]
             ELSE [done EXCEPT !.res =
                      [NoRes EXCEPT !.status = 200, !.kind = "text",
                                    !.tmdbId = req.tmdbId,
                                    !.chosen = best,
                                    !.comment = <<best.stream.provider,
                                                  QualityOrUnknown(best.stream.quality),
                                                  req.tmdbId>>,
                                    !.url = best.stream.url]]
        ELSE [done EXCEPT !.res =
                 [NoRes EXCEPT !.status = 200, !.kind = "json", !.tmdbId = req.tmdbId,
                               !.imdbId = req.imdbId, !.count = Len(streams),
                               !.providerTimings = req.providerTimings,
                               !.streams = streams]]

\* Promise.all fulfils once every callback has returned
\* (faulty variant: it fulfils as soon as one has)
SomeSettled(req) == \E i \in 1..Len(req.fetch) : req.fetch[i] # "pending"
NonePending(req) == \A i \in 1..Len(req.fetch) : req.fetch[i] # "pending"

AllSettled(r) ==
    /\ reqs[r].route = "aggregate"
    /\ reqs[r].pc = "fetching"
    /\ NonePending(reqs[r])
    /\ reqs' = [reqs EXCEPT ![r] = FinishAggregate(reqs[r], config)]
    /\ metrics' = [metrics EXCEPT !.streamsReturned =
                      @ + Len(applyFilters(Flat(reqs[r].results), config.excluded))]
    /\ UNCHANGED <<config, now, loginAttempts, ret, resp, pure>>

\* One aggregate request, under every configuration
InitAgg ==
    /\ InitGovVars
    /\ InitAggVars
    /\ config \in Configs

NextAgg ==
    \E r \in OneReq :
        \/ \E type \in Types, tmdbId \in TmdbIds, direct \in DirectModes,
              preferredProvider \in ProviderNames \cup {"null"} :
                StartRequest(r, type, tmdbId, direct, preferredProvider)
        \/ ResolverRejects(r)
        \/ \E imdbId \in ImdbIds : ResolverFulfils(r, imdbId)
        \/ \E i \in 1..Len(reqs[r].fetch) : FetchFulfils(r, i)
        \/ \E i \in 1..Len(reqs[r].fetch) : FetchRejects(r, i)
        \/ AllSettled(r)

SpecAgg == InitAgg /\ [][NextAgg]_vars

\* The continuation of Promise.all can run
CanFinish(r) ==
    /\ reqs[r].route = "aggregate"
    /\ reqs[r].pc = "fetching"
    /\ NonePending(reqs[r])

\* One aggregate request under the default configuration, where promises settle:
\* resolveImdbId settles, every started fetch settles, and the event loop runs
\* the continuation of Promise.all once it can. AllSettled(r) is enabled exactly
\* when CanFinish(r) holds and ends it, so that the last conjunct is
\* WF_vars(AllSettled(r)), stated on the states.
Settles ==
    /\ \A r \in OneReq :
           WF_vars(ResolverRejects(r) \/ \E imdbId \in ImdbIds : ResolverFulfils(r, imdbId))
    /\ \A r \in OneReq, i \in 1..Len(Registered) :
           WF_vars(FetchFulfils(r, i) \/ FetchRejects(r, i))
    /\ \A r \in OneReq : []<>~CanFinish(r)

SpecAggFair == Init /\ [][NextAgg]_vars /\ Settles

(***************************************************************************)
(* GET /api/streams/:provider/:type/:tmdbId                                *)
(***************************************************************************)
\* getProvider(provider) finds a provider
IsRegistered(name) == \E i \in 1..Len(Registered) : Registered[i] = name

\* The handler up to await resolveImdbId: the guard clauses, then the request
\* and the provider are counted
StartProviderRequest(r, provider, type, tmdbId, direct) ==
    /\ reqs[r].pc = "idle"
    /\ LET req == [reqs[r] EXCEPT !.route = "provider", !.provider = provider,
                                  !.type = type, !.tmdbId = tmdbId, !.direct = direct]
       IN  IF type \notin {"movie", "series"}
           THEN /\ reqs' = [reqs EXCEPT ![r] = Respond(req, 400, "json", "INVALID_TYPE")]
                /\ UNCHANGED metrics
           ELSE IF ~IsRegistered(provider)
           THEN /\ reqs' = [reqs EXCEPT ![r] =
                                Respond(req, 404, "json", "PROVIDER_NOT_FOUND")]
                /\ UNCHANGED metrics
           ELSE IF provider \notin config.enabled
           THEN /\ reqs' = [reqs EXCEPT ![r] =
                                Respond(req, 503, "json", "PROVIDER_DISABLED")]
                /\ UNCHANGED metrics
           ELSE /\ reqs' = [reqs EXCEPT ![r] = [req EXCEPT !.pc = "resolving"]]
                /\ metrics' = [metrics EXCEPT !.streamRequests = @ + 1,
                                              !.providerCalls[provider] = @ + 1]
    /\ UNCHANGED <<config, now, loginAttempts, ret, resp, pure>>

\* resolveImdbId fulfils with imdbId: the handler runs on to await prov.fetch
ProviderResolverFulfils(r, imdbId) ==
    /\ reqs[r].route = "provider"
    /\ reqs[r].pc = "resolving"
    /\ reqs' = [reqs EXCEPT ![r] =
           [reqs[r] EXCEPT !.pc = "fetching",
                           !.imdbId = imdbId,
                           !.selected = <<reqs[r].provider>>,
                           !.fetch = <<"pending">>,
                           !.returned = << <<>> >>,
                           !.results = << <<>> >>]]
    /\ metrics' = [metrics EXCEPT
                      !.tmdbToImdbLookups = IF imdbId # "null" THEN @ + 1 ELSE @]
    /\ UNCHANGED <<config, now, loginAttempts, ret, resp, pure>>

\* The handler from the point where prov.fetch has fulfilled to its response (no
\* await in between)
FinishProvider(req, cfg) ==
    LET filtered == applyFilters(req.returned[1], cfg.excluded)
        streams == IF cfg.enableProxy
                   THEN StripHeaders(processStreamsForProxy(filtered, cfg.relayAll))
                   ELSE filtered
        best == pickBestStream(streams, req.provider)
        done == [req EXCEPT !.pc = "done", !.sent = @ + 1]
    IN  IF req.direct # "none"
        THEN IF ~best.found \/ best.stream.url = ""
             THEN [done EXCEPT !.res = [NoRes EXCEPT !.status = 404, !.kind = "text",
                                                     !.tmdbId = req.tmdbId]]
             ELSE IF req.direct = "redirect"
             THEN [done EXCEPT !.res = [NoRes EXCEPT !.status = 302, !.kind = "redirect",
                                                     !.tmdbId = req.tmdbId,
                                                     !.chosen = best,
                                                     !.url = best.stream.url]]
             ELSE [done EXCEPT !.res =
                      [NoRes EXCEPT !.status = 200, !.kind = "text",
                                    !.tmdbId = req.tmdbId,
                                    !.chosen = best,
                                    !.comment = <<req.provider,
                                                  QualityOrUnknown(best.stream.quality),
                                                  req.tmdbId>>,
                                    !.url = best.stream.url]]
        ELSE [done EXCEPT !.res =
                 [NoRes EXCEPT !.status = 200, !.kind = "json", !.tmdbId = req.tmdbId,
                               !.provider = req.provider,
                               !.imdbId = req.imdbId, !.count = Len(streams),
                               !.providerTimings = req.providerTimings,
                               !.streams = streams]]

\* prov.fetch fulfils with out, elapsed ms after it was started
ProviderFetchFulfils(r) ==
    /\ reqs[r].route = "provider"
    /\ reqs[r].pc = "fetching"
    /\ \E out \in Outputs(reqs[r].provider), elapsed \in 0..MaxElapsed :
          /\ reqs' = [reqs EXCEPT ![r] =
                 FinishProvider([reqs[r] EXCEPT
                                    !.fetch[1] = "fulfilled",
                                    !.returned[1] = out,
                                    !.results[1] = out,
                                    !.providerTimings = MapSet(EmptyMap, reqs[r].provider,
                                                               elapsed)],
                                config)]
          /\ metrics' = [metrics EXCEPT !.streamsReturned =
                            @ + Len(applyFilters(out, config.excluded))]
    /\ UNCHANGED <<config, now, loginAttempts, ret, resp, pure>>

\* prov.fetch throws or rejects: nothing catches it before the handler's catch
ProviderFetchRejects(r) ==
    /\ reqs[r].route = "provider"
    /\ reqs[r].pc = "fetching"
    /\ reqs' = [reqs EXCEPT ![r] =
           Respond([reqs[r] EXCEPT !.fetch[1] = "rejected"], 500, "json", "INTERNAL_ERROR")]
    /\ metrics' = [metrics EXCEPT !.lastError = "fetch"]
    /\ UNCHANGED <<config, now, loginAttempts, ret, resp, pure>>

NextProv ==
    \E r \in OneReq :
        \/ \E provider \in ProviderNames, type \in Types, tmdbId \in TmdbIds,
              direct \in DirectModes :
                StartProviderRequest(r, provider, type, tmdbId, direct)
        \/ ResolverRejects(r)
        \/ \E imdbId \in ImdbIds : ProviderResolverFulfils(r, imdbId)
        \/ ProviderFetchFulfils(r)
        \/ ProviderFetchRejects(r)

\* One request on either route, under every configuration
NextRoutes == NextAgg \/ NextProv

SpecRoutes == InitAgg /\ [][NextRoutes]_vars

(***************************************************************************)
(* Requests in flight together                                             *)
(***************************************************************************)
\* Handlers run one at a time and give way only at their awaits, so the steps
\* of the requests interleave. One configuration: a is enabled, b is disabled,
\* zz is not registered, and the policy removes 480p streams.
ConcConfig ==
    [enableProxy |-> FALSE, relayAll |-> FALSE, defaultProviders |-> <<"a", "zz", "b">>,
     excluded |-> {Q480p}, enabled |-> {"a", "c"}]

InitConc ==
    /\ InitGovVars
    /\ InitAggVars
    /\ config = ConcConfig

NextConc ==
    \E r \in Reqs :
        \/ \E type \in {"movie", "tv"}, tmdbId \in TmdbIds :
                StartRequest(r, type, tmdbId, "none", "null")
        \/ \E provider \in {"a", "b", "zz"}, type \in {"movie", "tv"}, tmdbId \in TmdbIds :
                StartProviderRequest(r, provider, type, tmdbId, "none")
        \/ ResolverRejects(r)
        \/ \E imdbId \in ImdbIds : ResolverFulfils(r, imdbId)
        \/ \E imdbId \in ImdbIds : ProviderResolverFulfils(r, imdbId)
        \/ \E i \in 1..Len(reqs[r].fetch) : FetchFulfils(r, i)
        \/ \E i \in 1..Len(reqs[r].fetch) : FetchRejects(r, i)
        \/ AllSettled(r)
        \/ ProviderFetchFulfils(r)
        \/ ProviderFetchRejects(r)

SpecConc == InitConc /\ [][NextConc]_vars

(***************************************************************************)
(* pickBestStream, getQualityScore and qualityScore on their own           *)
(***************************************************************************)
MaxLen == 3

\* The streams the lists are made of, the lists, and the quality values
PureStreams ==
    { Stream("a", Q1080p, "u1", "h"), Stream("b", Q1080p, "u2", "none"),
      Stream("a", Q720p, "u3", "none"), Stream("b", Null, "u4", "none"),
      Stream("c", Q4K, "u5", "none"), Stream("c", QHD, "u6", "h") }
StreamLists == UNION { [1..k -> PureStreams] : k \in 0..MaxLen }
Labels ==
    { Q4K, Q2160p, Q1440p, Q2K, Q1080p, Q1080, Q720p, Q480p, QSD, QHD, QEmpty, Null,
      Q1080p4k, Qsd720p, Num1080 }

\* One application per behaviour, of inputs drawn from the sets above
PickBest(streams, preferredProvider) ==
    /\ pure = NoPure
    /\ LET after == ArrayAfterPick(streams, preferredProvider)
       IN  pure' = [NoPure EXCEPT !.fn = "pickBestStream",
                                  !.streams = streams,
                                  !.preferredProvider = preferredProvider,
                                  !.result = pickBestStream(streams, preferredProvider),
                                  !.after = after,
                                  !.again = pickBestStream(after, preferredProvider)]
    /\ UNCHANGED <<now, loginAttempts, ret, resp, config, metrics, reqs>>

ScorePair(a, b) ==
    /\ pure = NoPure
    /\ pure' = [NoPure EXCEPT !.fn = "score", !.a = a, !.b = b,
                              !.engineA = getQualityScore(a),
                              !.engineB = getQualityScore(b),
                              !.providerA = qualityScore(a),
                              !.providerB = qualityScore(b)]
    /\ UNCHANGED <<now, loginAttempts, ret, resp, config, metrics, reqs>>

NextPure ==
    \/ \E streams \in StreamLists, preferredProvider \in ProviderNames \cup {"null"} :
          PickBest(streams, preferredProvider)
    \/ \E a \in Labels, b \in Labels : ScorePair(a, b)

SpecPure == Init /\ [][NextPure]_vars

(***************************************************************************)
(* Claims about the governor (specification SpecGov)                       *)
(***************************************************************************)
\* The step is the call op(ip): every step that leaves the clock alone is a
\* governor call, and ret' names it.
Called(op, ip) == now' = now /\ ret'.op = op /\ ret'.ip = ip

\* ip's entry is in a streak begun from no entry whose failures all lie within
\* WINDOW_MS of the first, and a failure at time t continues it
InStreak(m, ip, t) ==
    ip \in DOMAIN m => m[ip].lockedUntil = 0 /\ t - m[ip].first <= WINDOW_MS

\* C1: starting from no entry, the k-th failure (1 <= k <= 5) within WINDOW_MS
\* of the first leaves lockedUntil = 0 and canAttempt allowed from then on; the
\* 6th such failure at time now sets lockedUntil = now + BASE_LOCK_MS exactly:
\* canAttempt is denied at now, now + 1 and now + BASE_LOCK_MS - 1 and allowed
\* again at now + BASE_LOCK_MS.
C1_SixthFailureLocks ==
    [][\A ip \in Ips :
        Called("recordFailure", ip) /\ InStreak(loginAttempts, ip, now) =>
            LET k == CountOf(loginAttempts, ip) + 1
                e == loginAttempts'[ip]
            IN  /\ k <= MAX_ATTEMPTS_WINDOW =>
                    /\ e.count = k
                    /\ e.lockedUntil = 0
                    /\ \A t \in Times \cup {now + WINDOW_MS, now + WINDOW_MS + 1} :
                          t >= now => canAttempt(loginAttempts', ip, t).allowed
                /\ k = MAX_ATTEMPTS_WINDOW + 1 =>
                    /\ e.count = k
                    /\ e.lockedUntil = now + 300000
                    /\ \A t \in {now, now + 1, now + 150000, now + 299999} :
                          ~canAttempt(loginAttempts', ip, t).allowed
                    /\ canAttempt(loginAttempts', ip, now + 300000).allowed
      ]_vars

\* The 6th failure of a streak spread over the window has just locked the identity
C1_Witness ==
    /\ ret.op = "recordFailure"
    /\ ret.seen = 5
    /\ ret.ip \in DOMAIN loginAttempts
    /\ LET e == loginAttempts[ret.ip]
       IN  /\ e.count = 6
           /\ e.first < now
           /\ e.lockedUntil = now + 300000

\* C2, as claimed: whenever canAttempt saw the entry with count 6 (locked by the
\* 6th failure) and allowed the attempt, the failure recorded next at the same
\* time now sets lockedUntil = now + 2 * BASE_LOCK_MS.
C2_SeventhAlwaysEscalates ==
    [][\A ip \in Ips :
        /\ Called("recordFailure", ip)
        /\ ret.op = "canAttempt" /\ ret.ip = ip /\ ret.allowed /\ ret.seen = 6
        => loginAttempts'[ip].lockedUntil = now + 2 * BASE_LOCK_MS
      ]_vars

\* C2, amended: the 7th failure escalates to 2 * BASE_LOCK_MS if it comes no
\* later than WINDOW_MS after the first failure (canAttempt then keeps the
\* entry); later than that canAttempt has deleted the entry and the failure
\* starts a fresh one: count 1, no lock.
C2_SeventhEscalatesInWindow ==
    [][\A ip \in Ips :
        /\ Called("recordFailure", ip)
        /\ ret.op = "canAttempt" /\ ret.ip = ip /\ ret.allowed /\ ret.seen = 6
        => LET e == loginAttempts'[ip]
           IN  IF ip \in DOMAIN loginAttempts
               THEN /\ now - loginAttempts[ip].first <= WINDOW_MS
                    /\ now >= loginAttempts[ip].lockedUntil
                    /\ e.count = 7
                    /\ e.lockedUntil = now + 2 * BASE_LOCK_MS
               ELSE e = [count |-> 1, first |-> now, last |-> now, lockedUntil |-> 0]
      ]_vars

\* A gated 7th failure has escalated the lock
C2_Witness ==
    /\ ret.op = "recordFailure"
    /\ ret.gate = 6
    /\ ret.ip \in DOMAIN loginAttempts
    /\ loginAttempts[ret.ip].count = 7
    /\ loginAttempts[ret.ip].lockedUntil = now + 2 * BASE_LOCK_MS

\* C3: every entry with count > MAX_ATTEMPTS_WINDOW has
\* lockedUntil = last + BASE_LOCK_MS * min(8, 2^(count - 6)), so no lock lasts
\* longer than 8 * BASE_LOCK_MS = 2400000 ms from the failure that set it.
C3_LockFormulaCapped ==
    \A ip \in DOMAIN loginAttempts :
        LET e == loginAttempts[ip]
        IN  e.count > MAX_ATTEMPTS_WINDOW =>
                /\ e.lockedUntil = e.last + BASE_LOCK_MS * Min(8, Pow2(e.count - 6))
                /\ e.lockedUntil - e.last <= 2400000

\* An entry whose uncapped multiplier would be 16 is locked for 8 * BASE_LOCK_MS
C3_Witness ==
    \E ip \in DOMAIN loginAttempts :
        /\ loginAttempts[ip].count = 10
        /\ loginAttempts[ip].lockedUntil = loginAttempts[ip].last + 2400000

\* C4: canAttempt(ip) at time now is denied iff ip has an entry with
\* lockedUntil > now; when denied, retryAfter = ceil((lockedUntil - now) / 1000),
\* an integer in 1..2400, and the map is unchanged; an entry that is not locked and
\* has now - first > WINDOW_MS is deleted (allowed); in every other case the call
\* is allowed and the map is unchanged.
C4_CanAttemptContract ==
    [][\A ip \in Ips :
        Called("canAttempt", ip) =>
            LET has == ip \in DOMAIN loginAttempts
                locked == has /\ loginAttempts[ip].lockedUntil > now
                stale == has /\ ~locked /\ now - loginAttempts[ip].first > WINDOW_MS
                d == loginAttempts[ip].lockedUntil - now
                r == ret'.retryAfter
            IN  /\ ret'.allowed <=> ~locked
                /\ locked =>
                    /\ 1000 * (r - 1) < d /\ d <= 1000 * r
                    /\ r >= 1 /\ r <= 2400
                /\ stale =>
                    /\ DOMAIN loginAttempts' = DOMAIN loginAttempts \ {ip}
                    /\ \A o \in DOMAIN loginAttempts' : loginAttempts'[o] = loginAttempts[o]
                /\ ~stale => loginAttempts' = loginAttempts
      ]_vars

\* canAttempt has denied with a retryAfter that Math.ceil rounded up
\* (lockedUntil - now = 299999 ms gives 300 s)
C4_Witness ==
    /\ ret.op = "canAttempt"
    /\ ~ret.allowed
    /\ ret.retryAfter = 300
    /\ loginAttempts[ret.ip].lockedUntil - now = 299999

\* C5: recordFailure at time now on an existing entry with now - first > WINDOW_MS
\* and not lockedUntil > now (the boundary now = lockedUntil included) leaves
\* count = 1 and first = now; in every other case on an existing entry count grows
\* by exactly 1 and first is unchanged; in both cases last = now.
C5_WindowExpiryResets ==
    [][\A ip \in Ips :
        Called("recordFailure", ip) /\ ip \in DOMAIN loginAttempts =>
            LET old == loginAttempts[ip]
                e == loginAttempts'[ip]
            IN  /\ e.last = now
                /\ IF now - old.first > WINDOW_MS /\ ~(old.lockedUntil > now)
                   THEN e.count = 1 /\ e.first = now
                   ELSE e.count = old.count + 1 /\ e.first = old.first
      ]_vars

\* C6: recordSuccess(ip), in any state, removes ip's entry and changes no other
\* identity's entry; a recordFailure(ip) at time now that finds no entry (as the
\* next one after a success does) creates {count 1, first now, last now,
\* lockedUntil 0}.
C6_SuccessClears ==
    [][\A ip \in Ips :
        /\ Called("recordSuccess", ip) =>
            /\ DOMAIN loginAttempts' = DOMAIN loginAttempts \ {ip}
            /\ \A o \in DOMAIN loginAttempts' : loginAttempts'[o] = loginAttempts[o]
        /\ Called("recordFailure", ip) /\ ip \notin DOMAIN loginAttempts =>
            /\ loginAttempts'[ip] =
                  [count |-> 1, first |-> now, last |-> now, lockedUntil |-> 0]
            /\ \A o \in DOMAIN loginAttempts : loginAttempts'[o] = loginAttempts[o]
      ]_vars

\* recordSuccess has just removed an entry that was locked with an escalated
\* lock, while the other identity keeps its entry
C6_Witness ==
    /\ ret.op = "recordSuccess"
    /\ ret.seen >= 7
    /\ ret.ip \notin DOMAIN loginAttempts
    /\ DOMAIN loginAttempts # {}

(***************************************************************************)
(* Claims about POST /auth/login (specification SpecLogin)                 *)
(***************************************************************************)
\* The step is a login request of ip: under SpecLogin every step that leaves
\* the clock alone is one, and resp' is its response.
LoginStep(ip) == now' = now /\ resp'.ip = ip

Locked(m, ip, t) == ip \in DOMAIN m /\ m[ip].lockedUntil > t

\* C7: a login request of an identity whose lock is active (lockedUntil > now)
\* is answered 429 TOO_MANY_ATTEMPTS with retryAfter, never invokes
\* authenticate, and leaves the map (so the identity's entry) unchanged,
\* whatever credentials it carries.
C7_LockedRejectedEarly ==
    [][\A ip \in Ips :
        LoginStep(ip) /\ Locked(loginAttempts, ip, now) =>
            LET d == loginAttempts[ip].lockedUntil - now
                r == resp'.retryAfter
            IN  /\ resp'.status = 429
                /\ resp'.error = "TOO_MANY_ATTEMPTS"
                /\ 1000 * (r - 1) < d /\ d <= 1000 * r
                /\ resp'.authCalls = 0
                /\ loginAttempts' = loginAttempts
      ]_vars

\* A request with valid credentials has been rejected by an active lock
C7_Witness ==
    /\ resp.creds = "valid"
    /\ resp.status = 429
    /\ resp.error = "TOO_MANY_ATTEMPTS"
    /\ resp.retryAfter = 300
    /\ Locked(loginAttempts, resp.ip, now)

\* What one recordFailure at time t makes of ip's entry, given the map the gate
\* saw: a fresh entry if there was none or it was stale, else count + 1
AfterOneFailure(m, ip, t) ==
    IF ip \notin DOMAIN m \/ t - m[ip].first > WINDOW_MS
    THEN [count |-> 1, first |-> t, last |-> t, lockedUntil |-> 0]
    ELSE LET c == m[ip].count + 1
         IN  [count |-> c, first |-> m[ip].first, last |-> t,
              lockedUntil |-> IF c > 5
                              THEN t + 300000 * Min(8, Pow2(c - 6))
                              ELSE m[ip].lockedUntil]

OthersUnchanged(ip) ==
    /\ DOMAIN loginAttempts' \ {ip} = DOMAIN loginAttempts \ {ip}
    /\ \A o \in DOMAIN loginAttempts \ {ip} : loginAttempts'[o] = loginAttempts[o]

\* The failure and success clauses of C8, for a request of an identity that is
\* not locked
C8_FailureAndSuccess(ip) ==
    /\ resp'.creds = "invalid" =>
        /\ ip \in DOMAIN loginAttempts'
        /\ loginAttempts'[ip] = AfterOneFailure(loginAttempts, ip, now)
        /\ OthersUnchanged(ip)
        /\ resp'.authCalls = 1
        /\ LET e == loginAttempts'[ip]
               d == e.lockedUntil - now
               r == resp'.retryAfter
           IN  IF e.lockedUntil > now
               THEN /\ resp'.status = 429 /\ resp'.error = "LOCKED"
                    /\ 1000 * (r - 1) < d /\ d <= 1000 * r
               ELSE /\ resp'.status = 401 /\ resp'.error = "INVALID_CREDENTIALS"
                    /\ resp'.remaining = Max(0, MAX_ATTEMPTS_WINDOW - e.count)
    /\ resp'.creds = "valid" =>
        /\ resp'.status = 200
        /\ ip \notin DOMAIN loginAttempts'
        /\ OthersUnchanged(ip)

\* C8, as claimed: for a request of an identity that is not locked, invalid
\* credentials apply exactly one recordFailure and answer 429 LOCKED (entry now
\* locked) or 401 INVALID_CREDENTIALS with remaining = max(0, 5 - count); valid
\* credentials apply recordSuccess and answer 200; missing credentials answer
\* 400 MISSING_CREDENTIALS and do not change the governor state.
C8_LoginOutcomes ==
    [][\A ip \in Ips :
        LoginStep(ip) /\ ~Locked(loginAttempts, ip, now) =>
            /\ C8_FailureAndSuccess(ip)
            /\ resp'.creds = "missing" =>
                /\ resp'.status = 400 /\ resp'.error = "MISSING_CREDENTIALS"
                /\ loginAttempts' = loginAttempts
      ]_vars

\* C8, amended: as claimed, except that a request with missing credentials
\* leaves the governor state as canAttempt left it: unchanged, but for the
\* identity's entry being deleted when it was stale (now - first > WINDOW_MS).
C8_LoginOutcomesStaleDeleted ==
    [][\A ip \in Ips :
        LoginStep(ip) /\ ~Locked(loginAttempts, ip, now) =>
            /\ C8_FailureAndSuccess(ip)
            /\ resp'.creds = "missing" =>
                /\ resp'.status = 400 /\ resp'.error = "MISSING_CREDENTIALS"
                /\ resp'.authCalls = 0
                /\ OthersUnchanged(ip)
                /\ IF ip \in DOMAIN loginAttempts /\ now - loginAttempts[ip].first > WINDOW_MS
                   THEN ip \notin DOMAIN loginAttempts'
                   ELSE loginAttempts' = loginAttempts
      ]_vars

\* A failed login has just locked the identity: the 6th failure, answered
\* 429 LOCKED with retryAfter 300
C8_Witness ==
    /\ resp.creds = "invalid"
    /\ resp.status = 429
    /\ resp.error = "LOCKED"
    /\ resp.retryAfter = 300
    /\ loginAttempts[resp.ip].count = 6

(***************************************************************************)
(* Claims about the aggregate route (specification SpecAgg)                *)
(***************************************************************************)
\* The request went through its fan-out and has responded
FannedOut(req) == req.pc = "done" /\ req.selected # <<>>

\* What identifies a stream whatever the relay did to it
Key(s) == <<s.provider, s.quality, s.url>>
Keys(streams) == [i \in 1..Len(streams) |-> Key(streams[i])]

\* The streams the policy lets through, of those selected[i]'s fetch fulfilled with
Passing(req, i) ==
    SelectSeq(req.returned[i], LAMBDA s : s.quality \notin config.excluded)

\* C9: whatever subset of the started fetches rejects, the request completes
\* without a request-level error (never 500); the streams of the response are,
\* provider by provider, exactly the filtered streams of the providers whose fetch
\* fulfilled, and none of a provider whose fetch rejected; a rejected provider's
\* timing entry is null and a fulfilled one's is not.
C9_PartialFailureTolerated ==
    \A r \in Reqs :
        LET req == reqs[r]
        IN  FannedOut(req) =>
                /\ req.res.status \in {200, 302, 404}
                /\ req.res.error = "none"
                /\ \A i \in 1..Len(req.selected) :
                      LET name == req.selected[i]
                          mine == SelectSeq(req.res.streams, LAMBDA s : s.provider = name)
                      IN  /\ req.fetch[i] = "rejected" =>
                              /\ name \in DOMAIN req.providerTimings
                              /\ req.providerTimings[name] = NullTiming
                              /\ req.res.kind = "json" =>
                                    /\ mine = <<>>
                                    /\ req.res.providerTimings[name] = NullTiming
                          /\ req.fetch[i] = "fulfilled" =>
                              /\ name \in DOMAIN req.providerTimings
                              /\ req.providerTimings[name] # NullTiming
                              /\ req.providerTimings[name] >= 0
                              /\ req.res.kind = "json" =>
                                    /\ Keys(mine) = Keys(Passing(req, i))
                                    /\ req.res.providerTimings[name] # NullTiming
                /\ req.res.kind = "json" =>
                      \A k \in 1..Len(req.res.streams) :
                          \E i \in 1..Len(req.selected) :
                              /\ req.fetch[i] = "fulfilled"
                              /\ req.selected[i] = req.res.streams[k].provider

\* One of three started fetches rejected and the JSON response carries the
\* streams of the other two
C9_Witness ==
    \E r \in Reqs :
        LET req == reqs[r]
        IN  /\ FannedOut(req)
            /\ req.res.kind = "json" /\ req.res.status = 200
            /\ req.fetch = <<"fulfilled", "rejected", "fulfilled">>
            /\ req.providerTimings["b"] = NullTiming
            /\ \E k \in 1..Len(req.res.streams) : req.res.streams[k].provider = "a"
            /\ \E k \in 1..Len(req.res.streams) : req.res.streams[k].provider = "c"

\* The providers' filtered results in selection-list order
RECURSIVE InSelectionOrder(_, _)
InSelectionOrder(req, i) ==
    IF i > Len(req.selected) THEN <<>>
    ELSE Passing(req, i) \o InSelectionOrder(req, i + 1)

\* The first stream of the highest score among those of the preferred provider
\* ("null": among all); 0 if there is none
BestIndex(streams, preferredProvider) ==
    LET cand == {i \in 1..Len(streams) :
                    preferredProvider = "null" \/ streams[i].provider = preferredProvider}
    IN  IF cand = {} THEN 0
        ELSE CHOOSE i \in cand :
                \A j \in cand :
                    \/ getQualityScore(streams[j].quality) < getQualityScore(streams[i].quality)
                    \/ /\ getQualityScore(streams[j].quality) = getQualityScore(streams[i].quality)
                       /\ i <= j

\* C10: in whatever order the fetches of a request settle, the stream list of
\* its response is the providers' results in selection-list order, each
\* provider's streams in the order it returned them; and in direct mode the
\* stream chosen is the one chosen from that list.
C10_CompletionOrderIrrelevant ==
    \A r \in Reqs :
        LET req == reqs[r]
            expected == InSelectionOrder(req, 1)
            best == BestIndex(expected, req.preferredProvider)
        IN  FannedOut(req) =>
                /\ req.res.kind = "json" => Keys(req.res.streams) = Keys(expected)
                /\ req.res.kind \in {"text", "redirect"} =>
                      IF best = 0 \/ expected[best].url = ""
                      THEN req.res.status = 404
                      ELSE /\ req.res.status \in {200, 302}
                           /\ req.res.url = expected[best].url
                           /\ req.res.kind = "text" =>
                                 req.res.comment[1] = expected[best].provider

\* Fetches settled out of selection order and the response lists the streams
\* of two providers
C10_Witness ==
    \E r \in Reqs :
        LET req == reqs[r]
        IN  /\ FannedOut(req)
            /\ req.reordered
            /\ req.res.kind = "json"
            /\ \E k \in 1..Len(req.res.streams) :
                  /\ k > 1
                  /\ req.res.streams[k].provider # req.res.streams[1].provider

(***************************************************************************)
(* Claims about stream selection and scoring (specification SpecPure)      *)
(***************************************************************************)
Picked == pure.fn = "pickBestStream"
NoCandidate ==
    /\ Picked
    /\ pure.streams # <<>>
    /\ pure.preferredProvider # "null"
    /\ \A i \in 1..Len(pure.streams) : pure.streams[i].provider # pure.preferredProvider

\* C11: pickBestStream on a non-empty list with a preferred provider that has
\* no stream in it returns a result that differs from the result of
\* pickBestStream on an empty list without a preferred provider.
C11_NoMatchDistinguishable ==
    NoCandidate => pure.result # pickBestStream(<<>>, "null")

\* C12: pickBestStream returns the candidate of the highest score (the streams
\* of the preferred provider if one is given, else all), among equally scoring
\* candidates the one that comes first in the list as it was passed; it
\* returns nothing exactly when there is no candidate; and a second call on
\* the caller's array as the first call left it returns the same result.
C12_FirstBestSelected ==
    Picked =>
        LET i == BestIndex(pure.streams, pure.preferredProvider)
        IN  /\ pure.result = IF i = 0 THEN NoStream
                              ELSE [found |-> TRUE, stream |-> pure.streams[i]]
            /\ pure.again = pure.result

\* Two candidates tie for the highest score, with a lower-scoring stream in
\* front of them, and the first of the two was picked
C12_Witness ==
    /\ Picked
    /\ pure.preferredProvider = "null"
    /\ Len(pure.streams) = 3
    /\ pure.streams[1].quality = Q720p
    /\ pure.streams[2] = Stream("b", Q1080p, "u2", "none")
    /\ pure.streams[3] = Stream("a", Q1080p, "u1", "h")
    /\ pure.result.found
    /\ pure.result.stream = pure.streams[2]
    /\ pure.after # pure.streams

Scored == pure.fn = "score"

\* The score the table gives each label, its first matching row deciding; missing
\* is the score of the empty string, null and non-string values
TableScore(q, missing) ==
    CASE q \in {Q4K, Q2160p, Q1080p4k} -> 100
      [] q \in {Q1440p, Q2K} -> 90
      [] q \in {Q1080p, Q1080} -> 80
      [] q \in {Q720p, Qsd720p} -> 60
      [] q \in {Q480p, QSD} -> 40
      [] q \in {QHD} -> 20
      [] q \in {QEmpty, Null, Num1080} -> missing

\* score("4K") > score("1080p") > score("720p") > score("480p") > score(null)
\* = score(""), on the pair of labels that was scored
ScoreChain ==
    /\ <<pure.a, pure.b>> \in {<<Q4K, Q1080p>>, <<Q1080p, Q720p>>, <<Q720p, Q480p>>,
                                <<Q480p, Null>>}
            => pure.engineA > pure.engineB
    /\ <<pure.a, pure.b>> = <<Null, QEmpty>> => pure.engineA = pure.engineB

\* C13 (as claimed): getQualityScore gives every label the score of the first
\* matching row of the table, and 20 to every other input including the empty
\* string, null and non-string values; and the chain of scores holds.
C13_ScoreTable ==
    Scored =>
        /\ pure.engineA = TableScore(pure.a, 20)
        /\ pure.engineB = TableScore(pure.b, 20)
        /\ ScoreChain

\* C13 (amended): getQualityScore gives every non-empty string the score of the
\* first matching row of the table, 20 if no row matches, and gives 0 to the
\* empty string, null and non-string values; and the chain of scores holds.
C13_ScoreTableMissingIsZero ==
    Scored =>
        /\ pure.engineA = TableScore(pure.a, 0)
        /\ pure.engineB = TableScore(pure.b, 0)
        /\ ScoreChain

\* A label that matches two rows was scored against a value that is no string
C13_Witness ==
    /\ Scored
    /\ pure.a = Q1080p4k
    /\ pure.b = Num1080
    /\ pure.engineA = 100
    /\ pure.engineB = 0

\* The labels of the tiers: 4K/2160, 1440/2K, 1080, 720, 480/SD, other, empty
TierLabels == {Q4K, Q2160p, Q1440p, Q2K, Q1080p, Q720p, Q480p, QSD, QHD, QEmpty}

\* C14: for every two tier labels a and b, getQualityScore orders a below b if
\* and only if qualityScore of the MP4Hydra provider orders a below b.
C14_SameTierOrder ==
    (Scored /\ pure.a \in TierLabels /\ pure.b \in TierLabels) =>
        ((pure.engineA < pure.engineB) <=> (pure.providerA < pure.providerB))

(***************************************************************************)
(* Claims about the two stream routes (specification SpecRoutes)           *)
(***************************************************************************)
\* The request has answered with streams: the JSON list or a direct-mode pick
Answered(req) == req.pc = "done" /\ req.res.status \in {200, 302}

\* C15: with enableProxy on, no stream of any response of either route (a
\* stream of the JSON list, the stream direct mode picked) has a headers field,
\* whether or not its provider gave it one and whether or not the relay
\* rewrote its url; with enableProxy off, the JSON list is the filtered streams
\* exactly as the providers returned them, and the stream direct mode picked
\* is one of them.
C15_RelayStripsHeaders ==
    \A r \in Reqs :
        LET req == reqs[r]
            res == req.res
            given == InSelectionOrder(req, 1)
        IN  Answered(req) =>
                IF config.enableProxy
                THEN /\ \A i \in 1..Len(res.streams) : res.streams[i].headers = "none"
                     /\ res.chosen.found => res.chosen.stream.headers = "none"
                ELSE /\ res.kind = "json" => res.streams = given
                     /\ res.chosen.found =>
                            \E i \in 1..Len(given) : given[i] = res.chosen.stream

\* The provider-specific route answered in relay mode with a stream that its
\* provider gave headers and the relay rewrote, and one that had none and was
\* not rewritten
C15_Witness ==
    /\ config.enableProxy
    /\ reqs[1].route = "provider"
    /\ Answered(reqs[1])
    /\ reqs[1].res.kind = "json"
    /\ reqs[1].returned[1] = <<Stream("a", Q1080p, "u1", "none"), Stream("a", Q480p, "u3", "h")>>
    /\ Len(reqs[1].res.streams) = 2
    /\ ~reqs[1].res.streams[1].relay
    /\ reqs[1].res.streams[2].relay
    /\ reqs[1].res.streams[2].headers = "none"

(***************************************************************************)
(* Claims about requests in flight together (specification SpecConc)       *)
(***************************************************************************)
RECURSIVE SumOver(_, _)
SumOver(f, S) ==
    IF S = {} THEN 0
    ELSE LET x == CHOOSE x \in S : TRUE IN f[x] + SumOver(f, S \ {x})

\* The request got past the guard clauses of its route
PassedValidation(req) ==
    /\ req.pc # "idle"
    /\ req.type \in {"movie", "series"}
    /\ req.route = "provider" => IsRegistered(req.provider) /\ req.provider \in config.enabled

\* How many times the request has invoked the fetch of provider name
FetchInvocations(req, name) ==
    Cardinality({i \in 1..Len(req.fetch) : req.selected[i] = name /\ req.fetch[i] # "skipped"})

\* The request has filtered its streams
ReachedFilter(req) ==
    /\ req.pc = "done"
    /\ req.selected # <<>>
    /\ req.route = "provider" => req.fetch[1] = "fulfilled"

\* No request is suspended at an await
Quiescent == \A r \in Reqs : reqs[r].pc \in {"idle", "done"}

\* C16: however the steps of the requests interleaved, once every request has
\* responded streamRequests is the number of requests that passed validation,
\* providerCalls[name] is the number of times the fetch of provider name was
\* invoked (never that of a disabled or unregistered provider), and
\* streamsReturned is the sum of the filtered stream counts of the requests
\* that filtered their streams.
C16_CountersExact ==
    Quiescent =>
    /\ metrics.streamRequests =
           Cardinality({r \in Reqs : PassedValidation(reqs[r])})
    /\ \A name \in ProviderNames :
           metrics.providerCalls[name] =
               SumOver([r \in Reqs |-> FetchInvocations(reqs[r], name)], Reqs)
    /\ metrics.streamsReturned =
           SumOver([r \in Reqs |-> IF ReachedFilter(reqs[r])
                                   THEN Len(InSelectionOrder(reqs[r], 1)) ELSE 0], Reqs)

(***************************************************************************)
(* More claims about the two stream routes (specification SpecRoutes)      *)
(***************************************************************************)
\* The provider the request names as its filter: ?provider= on the aggregate
\* route, :provider on the provider-specific route ("null": none)
ProviderFilter(req) ==
    IF req.route = "provider" THEN req.provider ELSE req.preferredProvider

\* C17: a request that names a provider filter invokes the fetch of no provider
\* of another name; and if no enabled provider has the name, the request (of
\* a valid type, its resolver fulfilled) answers with an empty result and not
\* with an error.
C17_FilterRestrictsFanOut ==
    \A r \in Reqs :
        LET req == reqs[r]
            name == ProviderFilter(req)
        IN  (req.pc # "idle" /\ name # "null" /\ req.type \in {"movie", "series"}) =>
                /\ \A i \in 1..Len(req.fetch) :
                       req.fetch[i] # "skipped" => req.selected[i] = name
                /\ (/\ req.pc = "done"
                    /\ ~Invoked(config, name)
                    /\ req.res.error # "INTERNAL_ERROR")
                       => /\ req.res.status \in {200, 404}
                          /\ req.res.error = "none"
                          /\ req.res.streams = <<>>

(***************************************************************************)
(* More claims about the aggregate route (specification SpecAgg)           *)
(***************************************************************************)
\* What a direct-mode response is for the stream s picked from the filtered
\* list, or for none (found = FALSE), when a pick with an empty url counts as
\* none (emptyUrlIsNone) or not: status, kind, url and comment line
DirectOutcome(req, found, s, emptyUrlIsNone) ==
    IF ~found \/ (emptyUrlIsNone /\ s.url = "")
    THEN [status |-> 404, kind |-> "text", url |-> "", comment |-> <<>>]
    ELSE IF req.direct = "redirect"
    THEN [status |-> 302, kind |-> "redirect", url |-> s.url, comment |-> <<>>]
    ELSE [status |-> 200, kind |-> "text", url |-> s.url,
          comment |-> <<s.provider,
                        IF s.quality \in {Null, QEmpty} THEN Unknown ELSE s.quality,
                        req.tmdbId>>]

\* The response of a request in direct mode that went through its fan-out is
\* the direct outcome
DirectModeAnswers(emptyUrlIsNone) ==
    \A r \in Reqs :
        LET req == reqs[r]
            res == req.res
            list == InSelectionOrder(req, 1)
            i == BestIndex(list, req.preferredProvider)
            s == IF i = 0 THEN NoStream.stream ELSE list[i]
        IN  (FannedOut(req) /\ req.route = "aggregate" /\ req.direct # "none") =>
                [status |-> res.status, kind |-> res.kind, url |-> res.url,
                 comment |-> res.comment]
                    = DirectOutcome(req, i # 0, s, emptyUrlIsNone)

\* C18 (as claimed): in direct mode the aggregate route answers 404 text/plain
\* when the filtered list is empty or has no stream of the preferred provider,
\* and in every other case with the url of the stream pickBestStream selects
\* from the filtered list: 302 to it when direct=redirect, else 200 text/plain
\* with the comment line (provider, quality or 'unknown', tmdbId) and the url.
C18_DirectMode == DirectModeAnswers(FALSE)

\* C18 (amended): as claimed, except that the answer is 404 text/plain also
\* when the stream pickBestStream selects has an empty url.
C18_DirectModeEmptyUrlIs404 == DirectModeAnswers(TRUE)

\* Streams a/720p/u1 and b/1080p/u2 (c's fetch rejected) were answered in
\* direct text mode with b, 1080p, 603 and u2
C18_Witness ==
    /\ FannedOut(reqs[1])
    /\ reqs[1].direct = "text"
    /\ reqs[1].preferredProvider = "null"
    /\ Keys(InSelectionOrder(reqs[1], 1)) = << <<"a", Q720p, "u1">>, <<"b", Q1080p, "u2">> >>
    /\ reqs[1].res.status = 200
    /\ reqs[1].res.comment = <<"b", Q1080p, "603">>
    /\ reqs[1].res.url = "u2"

(***************************************************************************)
(* Claims about the provider-specific route (specification SpecRoutes)     *)
(***************************************************************************)
\* C19: on the provider-specific route a request whose provider fetch threw or
\* rejected does not answer 500: it completes with no stream of that provider
\* and a null timing entry for it.
C19_ProviderFetchIsolated ==
    \A r \in Reqs :
        LET req == reqs[r]
        IN  (req.route = "provider" /\ req.pc = "done" /\ req.fetch = <<"rejected">>) =>
                /\ req.res.status # 500
                /\ req.res.error = "none"
                /\ req.res.streams = <<>>
                /\ req.res.providerTimings = MapSet(EmptyMap, req.provider, NullTiming)

(***************************************************************************)
(* Claims about the fan-out of the aggregate route (specification          *)
(* SpecAggFair)                                                            *)
(***************************************************************************)
\* While the request waits for its fetches, the fetch of every selected provider
\* that is registered and enabled has been started; no response is sent while a
\* fetch is pending; and a request has sent one response when it is done and
\* none before.
FanOutBarrier ==
    \A r \in Reqs :
        LET req == reqs[r]
        IN  /\ req.pc = "fetching" =>
                   /\ req.selected = SelectedProviders(config)
                   /\ Len(req.fetch) = Len(req.selected)
                   /\ \A i \in 1..Len(req.selected) :
                          Invoked(config, req.selected[i]) <=> req.fetch[i] # "skipped"
            /\ (\E i \in 1..Len(req.fetch) : req.fetch[i] = "pending") => req.sent = 0
            /\ req.sent = IF req.pc = "done" THEN 1 ELSE 0

\* C20: in an aggregate request the fetch of every selected enabled provider is
\* started before any is awaited, no response is sent before every started
\* fetch has settled (so a fetch that never settles leaves the request without
\* a response), a request sends exactly one response, and if the resolver and
\* every started fetch settle, a request that was made eventually responds.
C20_BarrierThenOneResponse ==
    /\ []FanOutBarrier
    /\ \A r \in OneReq : (reqs[r].pc # "idle") ~> (reqs[r].pc = "done" /\ reqs[r].sent = 1)

\* The request responded after three fetches, of which one rejected, had
\* settled out of their order
C20_Witness ==
    /\ FannedOut(reqs[1])
    /\ reqs[1].sent = 1
    /\ Len(reqs[1].fetch) = 3
    /\ reqs[1].fetch[1] = "fulfilled"
    /\ reqs[1].fetch[2] = "rejected"
    /\ reqs[1].fetch[3] = "fulfilled"
    /\ reqs[1].reordered

(***************************************************************************)
(* Claims about escalation through the login endpoint (specification       *)
(* SpecEscalation)                                                         *)
(***************************************************************************)
\* C21: whatever login requests an identity sends at non-decreasing times, the
\* count of its entry never exceeds 7 and no lock longer than 2 * BASE_LOCK_MS
\* is set (so the multipliers 4 and 8 are not reached through the endpoint),
\* because once the second lock (count 7) has expired the window has expired
\* too, so that canAttempt deletes the entry.
C21_EscalationBounded ==
    \A ip \in DOMAIN loginAttempts :
        LET e == loginAttempts[ip]
        IN  /\ e.count <= 7
            /\ e.lockedUntil <= e.last + 2 * BASE_LOCK_MS
            /\ (e.count = 7 /\ now >= e.lockedUntil) => now - e.first > WINDOW_MS

\* The second lock, set at the very end of the window, has expired
C21_Witness ==
    /\ "ip1" \in DOMAIN loginAttempts
    /\ loginAttempts["ip1"].count = 7
    /\ loginAttempts["ip1"].last = loginAttempts["ip1"].first + WINDOW_MS
    /\ loginAttempts["ip1"].lockedUntil = loginAttempts["ip1"].last + 2 * BASE_LOCK_MS
    /\ now >= loginAttempts["ip1"].lockedUntil

====
